---- MODULE Spec2Model ----
(***************************************************************************)
(* Model of the income-statement pipeline of parsers_bitrix:               *)
(* IncomeStatementParser.parse and the helpers it calls                    *)
(* (src/parsers/income_statement_parser.py, src/parsers/base_parser.py).   *)
(*                                                                         *)
(* Text is modelled as a sequence of tokens (words).  A cell is a sequence *)
(* of tokens; the content is a sequence of tokens in which "\n" separates  *)
(* lines.  The regular expressions and keyword tests of the source are     *)
(* modelled by what they return on each token of the alphabet below.  The  *)
(* keyword literals of the source are named here by Latin transliterations *)
(* of the Ukrainian words they stand for ("rik", "narakhovanoho", "kod",   *)
(* "oznaky", "period", "data formatuvannya"): a token whose lower case is  *)
(* such a name is a text in which the literal of the source occurs.  No    *)
(* cell of the alphabet has two adjacent numeric tokens, so removing the   *)
(* spaces of a cell never joins two numbers.                               *)
(*                                                                         *)
(* Years and codes are fixed-width digit strings in the source; they are   *)
(* numbers here (their string order is their numeric order).  Amounts are  *)
(* counted in thousandths; rounded amounts are counted in hundredths.      *)
(***************************************************************************)
EXTENDS Integers, Sequences, FiniteSets, TLC

\* ------------------------------------------------------------------ bounds
MaxTables == 3
MaxRows == 4
MaxDataRows == 3
MaxCalls == 3
MaxSpanTables == 2
MaxGridRows == 2
MaxGridCells == 2
MaxTokens == 2

\* ------------------------------------------------------ program constants
\* rows scanned for header keywords: range(min(5, len(table_data)))
HeaderScanRows == 5

None == -1

\* ------------------------------------------------------------------ tokens
\* str.lower() on a token
Lower(t) ==
    CASE t = "Rik" -> "rik"
      [] t = "Total" -> "total"
      [] t = "A" -> "a"
      [] t = "B" -> "b"
      [] OTHER -> t

\* `kw in text.lower()` for a cell or any other token sequence
InLower(kw, text) == \E i \in 1..Len(text) : Lower(text[i]) = kw

\* re.search(r'\b(20\d{2})\b', token): the year matched in one token, or None
TokYear(t) ==
    CASE t = "2022" -> 2022
      [] t = "2023" -> 2023
      [] OTHER -> None

\* re.search(r'(\d+(?:[.,]\d+)?)', token) after ',' became '.', then float():
\* the value of the first number of the token in thousandths, or None
TokNum(t) ==
    CASE t = "2022" -> 2022000
      [] t = "2023" -> 2023000
      [] t = "101" -> 101000
      [] t = "102" -> 102000
      [] t = "100.00" -> 100000
      [] t = "50,00" -> 50000
      [] t = "0.004" -> 4
      [] t = "0.005" -> 5
      [] OTHER -> None

\* re.search(r'\b(\d{3})\b', token): the 3-digit run matched in one token
TokCode(t) ==
    CASE t = "101" -> 101
      [] t = "102" -> 102
      [] t = "100.00" -> 100
      [] t = "0.004" -> 4
      [] t = "0.005" -> 5
      [] OTHER -> None

\* the token ends with three digits: \d{3} of r'\d{3}\s*[-...]\s*(.+)' can
\* end at the end of this token
EndsWith3Digits(t) == t \in {"101", "102", "2022", "2023", "0.004", "0.005"}

\* re.findall(r'\b(\d+\.\d{2})\b', token): a number with exactly two decimals
\* written with a point (the text fallback's amount pattern)
TokPoint2(t) ==
    CASE t = "100.00" -> 100000
      [] OTHER -> None

\* the pattern named kind matches in token t
Matches(kind, t) ==
    CASE kind = "year" -> TokYear(t) # None
      [] kind = "number" -> TokNum(t) # None
      [] kind = "code" -> TokCode(t) # None
      [] kind = "point2" -> TokPoint2(t) # None

RECURSIVE FirstOf(_, _, _)
\* re.search: index of the first token of text at or after i in which the
\* pattern named kind matches, 0 if none
FirstOf(kind, text, i) ==
    IF i > Len(text) THEN 0
    ELSE IF Matches(kind, text[i]) THEN i
    ELSE FirstOf(kind, text, i + 1)

\* year_match: first 20xx of the cell, or None
YearOf(cell) ==
    LET i == FirstOf("year", cell, 1) IN IF i = 0 THEN None ELSE TokYear(cell[i])

\* amount_match on the cleaned cell: first number of the cell, or None
AmountOf(cell) ==
    LET i == FirstOf("number", cell, 1) IN IF i = 0 THEN None ELSE TokNum(cell[i])

\* code_match: first 3-digit word of the cell, or None
CodeOf(cell) ==
    LET i == FirstOf("code", cell, 1) IN IF i = 0 THEN None ELSE TokCode(cell[i])

RECURSIVE DashAfterDigits(_, _)
\* first i with cell[i] ending in three digits, cell[i+1] a dash and text after
DashAfterDigits(cell, i) ==
    IF i + 2 > Len(cell) THEN 0
    ELSE IF EndsWith3Digits(cell[i]) /\ cell[i + 1] = "-" THEN i
    ELSE DashAfterDigits(cell, i + 1)

\* code_name: the text after "ddd -", stripped; <<>> is the empty string
CodeNameOf(cell) ==
    LET i == DashAfterDigits(cell, 1)
    IN IF i = 0 THEN <<>> ELSE SubSeq(cell, i + 2, Len(cell))

\* cell.strip() is empty
Blank(cell) == cell = <<>>

\* ------------------------------------------------------------ grid builder
\* [["" for _ in range(col_count)] for _ in range(row_count)]
EmptyGrid(row_count, col_count) ==
    [r \in 1..row_count |-> [c \in 1..col_count |-> <<>>]]

\* Python list index: position n of a list of length len for index i (0-based,
\* negative indices count from the end), 0 when the index raises IndexError
PyIndex(i, len) ==
    IF i >= 0 /\ i < len THEN i + 1
    ELSE IF i < 0 /\ i >= 0 - len THEN len + i + 1
    ELSE 0

RECURSIVE PlaceCells(_, _, _, _, _)
\* the loop of _build_table_structure over cells[k..]; raised when an index
\* that passed the range test is outside the list (IndexError)
PlaceCells(grid, cells, k, row_count, col_count) ==
    IF k > Len(cells) THEN [raised |-> FALSE, table |-> grid]
    ELSE LET cell == cells[k]
             r == PyIndex(cell.rowIndex, row_count)
             c == PyIndex(cell.columnIndex, col_count)
         IN IF cell.rowIndex < row_count /\ cell.columnIndex < col_count
            THEN IF r = 0 \/ c = 0 THEN [raised |-> TRUE, table |-> grid]
                 ELSE PlaceCells([grid EXCEPT ![r][c] = cell.content],
                                 cells, k + 1, row_count, col_count)
            ELSE PlaceCells(grid, cells, k + 1, row_count, col_count)

\* _build_table_structure(cells, row_count, col_count)
BuildTableStructure(cells, row_count, col_count) ==
    PlaceCells(EmptyGrid(row_count, col_count), cells, 1, row_count, col_count)

\* ------------------------------------------------------------ header scan
\* the three tests on one cell (col_idx is 0-based); st carries col_year,
\* col_amount, col_code and header_found
ScanCell(st, cell, col_idx) ==
    LET s1 == IF ~Blank(cell) /\ InLower("rik", cell)
              THEN [st EXCEPT !.col_year = col_idx, !.header_found = TRUE]
              ELSE st
        s2 == IF ~Blank(cell) /\ InLower("narakhovanoho", cell)
              THEN [s1 EXCEPT !.col_amount = col_idx]
              ELSE s1
    IN IF ~Blank(cell) /\ InLower("kod", cell) /\ InLower("oznaky", cell)
       THEN [s2 EXCEPT !.col_code = col_idx]
       ELSE s2

RECURSIVE ScanRow(_, _, _)
\* for col_idx, cell_content in enumerate(row), from column c (1-based) on
ScanRow(st, row, c) ==
    IF c > Len(row) THEN st
    ELSE ScanRow(ScanCell(st, row[c], c - 1), row, c + 1)

Min(a, b) == IF a < b THEN a ELSE b

RECURSIVE ScanRows(_, _, _)
\* for row_idx in range(min(5, len(table_data))), from row r (1-based) on
ScanRows(st, table_data, r) ==
    IF r > Min(HeaderScanRows, Len(table_data)) THEN st
    ELSE ScanRows(ScanRow(st, table_data[r], 1), table_data, r + 1)

\* a scan that marks the header as found after the first table part it reads
FindColumnsFirstOnly(st, table_data) ==
    IF st.header_found THEN st
    ELSE [ScanRows(st, table_data, 1) EXCEPT !.header_found = TRUE]

\* a scan of every table part, whether or not the header was found before
FindColumnsAlways(st, table_data) == ScanRows(st, table_data, 1)

\* if not header_found: scan the first rows of the table part
FindColumns(st, table_data) ==
    IF st.header_found THEN st ELSE ScanRows(st, table_data, 1)

\* --------------------------------------------------------- row extraction
\* row[col] if col < len(row) else ""
CellAt(row, col) == IF col < Len(row) THEN row[col + 1] ELSE <<>>

\* the body of the row loop: <<record>> when the row yields a record, <<>>
\* when it is skipped
ExtractRow(row, col_year, col_amount, col_code) ==
    LET year_cell == CellAt(row, col_year)
        amount_cell == CellAt(row, col_amount)
        code_cell == CellAt(row, col_code)
    IN IF InLower("rik", year_cell) \/ InLower("period", year_cell) THEN <<>>
       ELSE IF Blank(year_cell) /\ Blank(amount_cell) /\ Blank(code_cell) THEN <<>>
       ELSE IF YearOf(year_cell) = None THEN <<>>
       ELSE IF AmountOf(amount_cell) = None THEN <<>>
       ELSE IF CodeOf(code_cell) = None THEN <<>>
       ELSE << [year |-> YearOf(year_cell),
                code |-> CodeOf(code_cell),
                code_name |-> CodeNameOf(code_cell),
                amount |-> AmountOf(amount_cell)] >>

RECURSIVE ExtractRows(_, _, _, _, _)
\* for row_idx in range(start_row, len(table_data)), from row r (1-based) on
ExtractRows(table_data, r, col_year, col_amount, col_code) ==
    IF r > Len(table_data) THEN <<>>
    ELSE ExtractRow(table_data[r], col_year, col_amount, col_code)
         \o ExtractRows(table_data, r + 1, col_year, col_amount, col_code)

\* state of _extract_from_merged_tables before its loop
ExtractStart ==
    [records |-> <<>>, col_year |-> None, col_amount |-> None,
     col_code |-> None, header_found |-> FALSE, raised |-> FALSE]

\* an iteration that raises when the columns are not identified
TablePartStrict(st, table, table_idx) ==
    IF table.cells = <<>> THEN st
    ELSE LET built ==
                 BuildTableStructure(table.cells, table.rowCount, table.columnCount)
             table_data == built.table
         IN IF built.raised THEN [st EXCEPT !.raised = TRUE]
            ELSE LET s1 == FindColumns(st, table_data)
                     start_row == IF table_idx = 0 THEN 1 ELSE 0
                 IN IF s1.col_year = None \/ s1.col_amount = None
                       \/ s1.col_code = None
                    THEN [s1 EXCEPT !.raised = TRUE]
                    ELSE [s1 EXCEPT !.records =
                              @ \o ExtractRows(table_data, start_row + 1,
                                               s1.col_year, s1.col_amount,
                                               s1.col_code)]

\* an iteration that reads every table part from its first row
TablePartFromRowZero(st, table, table_idx) ==
    IF table.cells = <<>> THEN st
    ELSE LET built ==
                 BuildTableStructure(table.cells, table.rowCount, table.columnCount)
             table_data == built.table
         IN IF built.raised THEN [st EXCEPT !.raised = TRUE]
            ELSE LET s1 == FindColumns(st, table_data)
                 IN IF s1.col_year = None \/ s1.col_amount = None
                       \/ s1.col_code = None
                    THEN s1
                    ELSE [s1 EXCEPT !.records =
                              @ \o ExtractRows(table_data, 1,
                                               s1.col_year, s1.col_amount,
                                               s1.col_code)]

\* one iteration of `for table_idx, table in enumerate(tables)`
TablePart(st, table, table_idx) ==
    IF table.cells = <<>> THEN st
    ELSE LET built ==
                 BuildTableStructure(table.cells, table.rowCount, table.columnCount)
             table_data == built.table
         IN IF built.raised THEN [st EXCEPT !.raised = TRUE]
            ELSE LET s1 == FindColumns(st, table_data)
                     start_row == IF table_idx = 0 THEN 1 ELSE 0
                 IN IF s1.col_year = None \/ s1.col_amount = None
                       \/ s1.col_code = None
                    THEN s1
                    ELSE [s1 EXCEPT !.records =
                              @ \o ExtractRows(table_data, start_row + 1,
                                               s1.col_year, s1.col_amount,
                                               s1.col_code)]

RECURSIVE TableParts(_, _, _)
\* the loop of _extract_from_merged_tables from table_idx on (0-based); an
\* exception leaves the loop
TableParts(st, tables, table_idx) ==
    IF table_idx >= Len(tables) \/ st.raised THEN st
    ELSE TableParts(TablePart(st, tables[table_idx + 1], table_idx),
                    tables, table_idx + 1)

\* _extract_from_merged_tables(tables): the final loop state (its records are
\* the return value; raised when an exception left the function)
ExtractFromMergedTables(tables) == TableParts(ExtractStart, tables, 0)

\* ------------------------------------------------------------- aggregator
\* round(x, 2) of an amount x in thousandths, in hundredths.  A half-cent
\* case is decided by the binary value of the float, which is above or below
\* the decimal value: up tells which.
Round2(x, up) ==
    LET q == x \div 10
        r == x % 10
    IN IF r < 5 THEN q
       ELSE IF r > 5 THEN q + 1
       ELSE IF up THEN q + 1 ELSE q

RECURSIVE GroupRecordsLastName(_, _, _)
\* a first loop that lets every non-empty code_name replace the name
GroupRecordsLastName(grouped, records, k) ==
    IF k > Len(records) THEN grouped
    ELSE LET rec == records[k]
             key == <<rec.year, rec.code>>
             old == IF key \in DOMAIN grouped THEN grouped[key]
                    ELSE [name |-> <<>>, total |-> 0]
             new == [name |-> IF rec.code_name # <<>>
                              THEN rec.code_name ELSE old.name,
                     total |-> old.total + rec.amount]
         IN GroupRecordsLastName([k2 \in DOMAIN grouped \cup {key} |->
                                     IF k2 = key THEN new ELSE grouped[k2]],
                                 records, k + 1)

RECURSIVE GroupRecordsAssign(_, _, _)
\* a first loop that assigns the amount to the total instead of adding it
GroupRecordsAssign(grouped, records, k) ==
    IF k > Len(records) THEN grouped
    ELSE LET rec == records[k]
             key == <<rec.year, rec.code>>
             old == IF key \in DOMAIN grouped THEN grouped[key]
                    ELSE [name |-> <<>>, total |-> 0]
             new == [name |-> IF rec.code_name # <<>> /\ old.name = <<>>
                              THEN rec.code_name ELSE old.name,
                     total |-> rec.amount]
         IN GroupRecordsAssign([k2 \in DOMAIN grouped \cup {key} |->
                                   IF k2 = key THEN new ELSE grouped[k2]],
                               records, k + 1)

RECURSIVE GroupRecords(_, _, _)
\* the first loop of _group_and_sum over records[k..]: grouped maps
\* <<year, code>> to its name and running total
GroupRecords(grouped, records, k) ==
    IF k > Len(records) THEN grouped
    ELSE LET rec == records[k]
             key == <<rec.year, rec.code>>
             old == IF key \in DOMAIN grouped THEN grouped[key]
                    ELSE [name |-> <<>>, total |-> 0]
             new == [name |-> IF rec.code_name # <<>> /\ old.name = <<>>
                              THEN rec.code_name ELSE old.name,
                     total |-> old.total + rec.amount]
         IN GroupRecords([k2 \in DOMAIN grouped \cup {key} |->
                             IF k2 = key THEN new ELSE grouped[k2]],
                         records, k + 1)

RECURSIVE SortedDescending(_)
\* the keys in descending order
SortedDescending(S) ==
    IF S = {} THEN <<>>
    ELSE LET m == CHOOSE x \in S : \A y \in S : x >= y
         IN <<m>> \o SortedDescending(S \ {m})

RECURSIVE Sorted(_)
\* sorted(keys) for a set of numbers
Sorted(S) ==
    IF S = {} THEN <<>>
    ELSE LET m == CHOOSE x \in S : \A y \in S : x <= y
         IN <<m>> \o Sorted(S \ {m})

RECURSIVE SumOver(_, _, _)
\* the running sum of f[keys[i]] for i in k..Len(keys)
SumOver(f, keys, k) ==
    IF k > Len(keys) THEN 0 ELSE f[keys[k]] + SumOver(f, keys, k + 1)

\* a year entry whose "_total" adds up the rounded amounts
YearLedgerOfRounded(grouped, year, up) ==
    LET codes == Sorted({key[2] : key \in {k \in DOMAIN grouped : k[1] = year}})
        Rounded == [i \in 1..Len(codes) |->
                       Round2(grouped[<<year, codes[i]>>].total, up)]
        idx == [i \in 1..Len(codes) |-> i]
    IN [year |-> year,
        codes |-> [i \in 1..Len(codes) |->
                      [code |-> codes[i],
                       name |-> grouped[<<year, codes[i]>>].name,
                       amount |-> Rounded[i]]],
        total |-> SumOver(Rounded, idx, 1)]

\* the second loop of _group_and_sum for one year: its codes in sorted order
\* with name and rounded amount, and "_total", the rounded sum of the totals
YearLedger(grouped, year, up) ==
    LET codes == Sorted({key[2] : key \in {k \in DOMAIN grouped : k[1] = year}})
        Total == [i \in 1..Len(codes) |-> grouped[<<year, codes[i]>>].total]
        idx == [i \in 1..Len(codes) |-> i]
    IN [year |-> year,
        codes |-> [i \in 1..Len(codes) |->
                      [code |-> codes[i],
                       name |-> grouped[<<year, codes[i]>>].name,
                       amount |-> Round2(Total[i], up)]],
        total |-> Round2(SumOver(Total, idx, 1), up)]

\* _group_and_sum(records): the ledger as the sequence of its year entries in
\* the order of the result dict
GroupAndSum(records, up) ==
    LET grouped == GroupRecords(<< >>, records, 1)
        years == Sorted({key[1] : key \in DOMAIN grouped})
    IN [i \in 1..Len(years) |-> YearLedger(grouped, years[i], up)]

RECURSIVE SumAmounts(_, _)
\* the sum of the emitted amounts of codes[k..]
SumAmounts(codes, k) ==
    IF k > Len(codes) THEN 0 ELSE codes[k].amount + SumAmounts(codes, k + 1)

\* a summary that adds up the code amounts of every year instead of "_total"
CreateSummaryFromCodes(grouped_data, up) ==
    LET YearSum == [i \in 1..Len(grouped_data) |->
                       SumAmounts(grouped_data[i].codes, 1)]
        idx == [i \in 1..Len(grouped_data) |-> i]
    IN [total_years |-> Len(grouped_data),
        total_amount |-> Round2(10 * SumOver(YearSum, idx, 1), up),
        years |-> [i \in 1..Len(grouped_data) |-> grouped_data[i].year]]

\* _create_summary(grouped_data); total_amount in hundredths
CreateSummary(grouped_data, up) ==
    LET YearTotal == [i \in 1..Len(grouped_data) |-> grouped_data[i].total]
        idx == [i \in 1..Len(grouped_data) |-> i]
    IN [total_years |-> Len(grouped_data),
        total_amount |-> Round2(10 * SumOver(YearTotal, idx, 1), up),
        years |-> [i \in 1..Len(grouped_data) |-> grouped_data[i].year]]

\* ---------------------------------------------------------- text fallback
RECURSIVE SplitLines(_, _, _)
\* content.split('\n'): cur is the line being read, from token k on
SplitLines(content, k, cur) ==
    IF k > Len(content) THEN <<cur>>
    ELSE IF content[k] = "\n" THEN <<cur>> \o SplitLines(content, k + 1, <<>>)
    ELSE SplitLines(content, k + 1, Append(cur, content[k]))

\* \b(\d{3}) of r'\b(\d{3})\s*-\s*([^\n]+)': a 3-digit word ending the token
TokTextCode(t) ==
    CASE t = "101" -> 101
      [] t = "102" -> 102
      [] t = "0.004" -> 4
      [] t = "0.005" -> 5
      [] OTHER -> None

RECURSIVE CodeDashAt(_, _)
\* first i with line[i] ending in a 3-digit word, line[i+1] a dash, text after
CodeDashAt(line, i) ==
    IF i + 2 > Len(line) THEN 0
    ELSE IF TokTextCode(line[i]) # None /\ line[i + 1] = "-" THEN i
    ELSE CodeDashAt(line, i + 1)

\* the body of the line loop of _extract_from_text
ExtractLine(line) ==
    LET y == FirstOf("year", line, 1)
        a == FirstOf("point2", line, 1)
        c == CodeDashAt(line, 1)
    IN IF y = 0 THEN <<>>
       ELSE IF a = 0 THEN <<>>
       ELSE IF c = 0 THEN <<>>
       ELSE << [year |-> TokYear(line[y]),
                code |-> TokTextCode(line[c]),
                code_name |-> SubSeq(line, c + 2, Len(line)),
                amount |-> TokPoint2(line[a])] >>

RECURSIVE ExtractLines(_, _)
ExtractLines(lines, k) ==
    IF k > Len(lines) THEN <<>>
    ELSE ExtractLine(lines[k]) \o ExtractLines(lines, k + 1)

\* _extract_from_text(content)
ExtractFromText(content) == ExtractLines(SplitLines(content, 1, <<>>), 1)

\* ------------------------------------------------------- relevant tables
\* content.lower().find(kw): 0-based position of the first match, -1 if none
Find(content, kw) ==
    IF \E i \in 1..Len(content) : Lower(content[i]) = kw
    THEN (CHOOSE i \in 1..Len(content) :
              /\ Lower(content[i]) = kw
              /\ \A j \in 1..(i - 1) : Lower(content[j]) # kw) - 1
    ELSE -1

\* the test of the loop body of _filter_relevant_tables: the table is appended
Relevant(table, period_pos, date_format_pos) ==
    LET cells == table.cells
        with_spans == {i \in 1..Len(cells) : cells[i].span # None}
        min_offset == CHOOSE o \in {cells[i].span : i \in with_spans} :
                          \A i \in with_spans : o <= cells[i].span
        max_offset == CHOOSE o \in {cells[i].span : i \in with_spans} :
                          \A i \in with_spans : o >= cells[i].span
    IN IF cells = <<>> THEN FALSE
       ELSE IF with_spans = {} THEN table.boundingRegions /\ period_pos > 0
       ELSE /\ min_offset > period_pos
            /\ (date_format_pos = -1 \/ max_offset < date_format_pos)

\* _filter_relevant_tables(tables, content, period_pos, date_format_pos)
FilterRelevantTables(tables, period_pos, date_format_pos) ==
    IF period_pos = -1 THEN tables
    ELSE LET Keep(t) == Relevant(t, period_pos, date_format_pos)
         IN SelectSeq(tables, Keep)

\* ------------------------------------------------------------- validation
\* validate_result(azure_result): the message of the ValueError it raises,
\* "" when it returns True
ValidateResult(azure_result) ==
    IF azure_result.shape \in {"None", "empty"} THEN "Azure result is empty"
    ELSE IF azure_result.shape = "noAnalyzeResult"
         THEN "Missing 'analyzeResult' in Azure response"
    ELSE IF azure_result.shape = "noContent"
         THEN "Missing 'content' in analyzeResult"
    ELSE ""

\* ------------------------------------------------------------------ parse
\* the value returned by `except Exception as e`
Failure(msg) == [success |-> FALSE, error |-> msg, data |-> <<>>]

\* an exception handler that lets the exception through
OnExceptionReraise(msg) ==
    [escaped |-> TRUE,
     result |-> [success |-> FALSE, error |-> "", data |-> <<>>]]

\* how parse leaves when an exception with message msg is raised in its try
\* block: the handler catches it and returns the failure result
OnException(msg) == [escaped |-> FALSE, result |-> Failure(msg)]

\* a success result that also carries an "error" entry
SuccessWithError(grouped_data, up) ==
    [success |-> TRUE, data |-> grouped_data,
     summary |-> CreateSummary(grouped_data, up), error |-> ""]

\* the value returned at the end of the try block
Success(grouped_data, up) ==
    [success |-> TRUE, data |-> grouped_data,
     summary |-> CreateSummary(grouped_data, up)]

\* income data that add the text records to the table records
IncomeDataWithText(table_records, content) ==
    table_records \o ExtractFromText(content)

\* income data that try the text first and the tables second
IncomeDataTextFirst(table_records, content) ==
    IF ExtractFromText(content) # <<>> THEN ExtractFromText(content)
    ELSE table_records

\* income_data of parse: the table records, or the text records when the
\* tables gave none
IncomeData(table_records, content) ==
    IF table_records = <<>> THEN ExtractFromText(content) ELSE table_records

\* azure_result["analyzeResult"]["content"] is None
ContentIsNone(azure_result) == azure_result.shape = "nullContent"

\* str(e) of the TypeError len(content) raises on None
NoLenMessage == "object of type 'NoneType' has no len()"

\* parse(azure_result) as a function of its input: [escaped, result]
Parse(azure_result, up) ==
    IF ValidateResult(azure_result) # ""
    THEN OnException(ValidateResult(azure_result))
    ELSE IF ContentIsNone(azure_result) THEN OnException(NoLenMessage)
    ELSE LET content == azure_result.content
             relevant == FilterRelevantTables(azure_result.tables,
                             Find(content, "period"),
                             Find(content, "data formatuvannya"))
             st == ExtractFromMergedTables(relevant)
         IN IF st.raised THEN OnException("list index out of range")
            ELSE [escaped |-> FALSE,
                  result |-> Success(GroupAndSum(IncomeData(st.records, content),
                                                 up), up)]

\* ------------------------------------------------------------------ inputs
\* rows of a three-column table: year cell, amount cell, code cell
HeaderRow == << <<"Rik">>, <<"narakhovanoho">>, <<"kod", "oznaky">> >>
RowA == << <<"2022">>, <<"100.00">>, <<"101", "-", "A">> >>
RowB == << <<"2022">>, <<"50,00">>, <<"101", "-", "B">> >>
RowC == << <<"2023">>, <<"0.004">>, <<"102", "-", "A">> >>
RowD == << <<"2023">>, <<"0.004">>, <<"101">> >>
RowE == << <<"2022">>, <<"50,00">>, <<"101">> >>
\* a header row and a data row with the columns in the opposite order
HeaderRowSwapped == << <<"kod", "oznaky">>, <<"narakhovanoho">>, <<"Rik">> >>
RowASwapped == << <<"101", "-", "A">>, <<"100.00">>, <<"2022">> >>
RowKw == << <<"2022">>, <<"100.00">>, <<"102", "-", "rik">> >>
RowBad == << <<"2022">>, <<"abc">>, <<"101", "-", "A">> >>
RowBadKw == << <<"2022">>, <<"abc">>, <<"101", "-", "rik">> >>
RowTotal == << <<"2022">>, <<"100.00">>, <<"Total">> >>
RowTotalCode == << <<"2022">>, <<"100.00">>, <<"Total", "101">> >>
BlankRow == << <<>>, <<>>, <<>> >>

\* the table the document-analysis client delivers for a grid of rows: one
\* cell per position, no spans and no bounding regions
\* (AzureDocumentIntelligence.analyze_document)
TableOf(rows) ==
    LET cols == IF rows = <<>> THEN 0 ELSE Len(rows[1])
    IN [rowCount |-> Len(rows),
        columnCount |-> cols,
        cells |-> [k \in 1..(Len(rows) * cols) |->
                      [rowIndex |-> (k - 1) \div cols,
                       columnIndex |-> (k - 1) % cols,
                       content |-> rows[((k - 1) \div cols) + 1][((k - 1) % cols) + 1],
                       span |-> None]],
        boundingRegions |-> FALSE]

RECURSIVE SeqsOfLen(_, _)
\* the sequences of exactly n elements of S
SeqsOfLen(S, n) ==
    IF n = 0 THEN {<<>>}
    ELSE {<<x>> \o q : x \in S, q \in SeqsOfLen(S, n - 1)}

\* the sequences of at most n elements of S
SeqsUpTo(S, n) == UNION {SeqsOfLen(S, k) : k \in 0..n}

RECURSIVE Lens(_, _)
\* the ways to cut n rows into t table parts: the t lengths, in order
Lens(t, n) ==
    IF t = 0 THEN IF n = 0 THEN {<<>>} ELSE {}
    ELSE UNION {{<<k>> \o q : q \in Lens(t - 1, n - k)} : k \in 0..n}

RECURSIVE SplitRows(_, _)
\* the table parts that hold rows cut in parts of the lengths lens
SplitRows(rows, lens) ==
    IF lens = <<>> THEN <<>>
    ELSE <<TableOf(SubSeq(rows, 1, lens[1]))>>
         \o SplitRows(SubSeq(rows, lens[1] + 1, Len(rows)), Tail(lens))

Payload(content, tables) ==
    [shape |-> "ok", content |-> content, tables |-> tables]

\* payloads validate_result rejects
BadPayloads ==
    {[shape |-> sh, content |-> <<>>, tables |-> <<>>] :
        sh \in {"None", "empty", "noAnalyzeResult", "noContent"}}

\* a payload whose "content" entry is None
NullContent == [shape |-> "nullContent", content |-> <<>>, tables |-> <<>>]

\* a content whose only income line the text fallback reads
TextContent == <<"x", "\n", "2022", "100.00", "101", "-", "A">>

\* a few payloads that take parse through each of its paths
BasePayloads ==
    BadPayloads \cup
    {NullContent,
     Payload(TextContent, <<>>),
     Payload(<<>>, <<TableOf(<<HeaderRow, RowA>>)>>),
     Payload(<<"period", "\n">> \o TextContent, <<TableOf(<<HeaderRow, RowA>>)>>)}

\* ------------------------------------------------------------------- state
VARIABLES
    azure_result,     \* the argument of parse
    up,               \* how a half-cent case rounds in this call
    pc,               \* position of the call in parse
    relevant_tables,  \* relevant_tables of parse
    st,               \* locals of _extract_from_merged_tables
    table_idx,        \* its loop index
    income_data,      \* income_data of parse
    grouped_data,     \* grouped_data of parse
    escaped,          \* an exception left parse
    result,           \* the value parse returned
    handlers,         \* handlers of the logger the parser instances share
    parked,           \* the frame of the parse call that is not running
    returned,         \* the parse calls that returned: input and result
    handler,          \* the request process_income_statement serves
    client,           \* access_token and refresh_token of the BitrixClient
    oauth,            \* the OAuth endpoint: tokens issued, last refresh token
    ops               \* the BitrixClient operation each thread is in

\* the frame of the running parse call
frame == <<azure_result, up, pc, relevant_tables, st, table_idx, income_data,
           grouped_data, escaped, result>>

\* what lies outside the frame of the running parse call
\* the module-level BitrixClient, the endpoint it talks to and its callers
bitrix == <<client, oauth, ops>>

outer == <<handlers, parked, returned, handler, bitrix>>

vars == <<frame, outer>>

NoResult == [success |-> FALSE, error |-> "", data |-> <<>>]

\* no other parse call
NoFrame == [pc |-> "none"]

\* parse is not called by the webhook
NoHandler == [step |-> "none"]

\* the threads of the server that serve requests
Threads == {"t1", "t2"}

\* BitrixClient.__init__: refresh_token from the environment (token 0),
\* access_token None (0)
NewClient == [access_token |-> 0, refresh_token |-> 0]

\* the endpoint has issued no token since; the environment's refresh token
\* is the one it returned last
NewOAuth == [issued |-> 0, latest |-> 0]

\* no OAuth response at hand
NoData == [access |-> 0, refresh |-> 0]

\* a thread that is in no BitrixClient operation
NoOp == [kind |-> "none", pcop |-> "idle", token |-> 0, data |-> NoData,
         log |-> <<>>]

InitBitrixIdle ==
    /\ client = NewClient
    /\ oauth = NewOAuth
    /\ ops = [t \in Threads |-> NoOp]

InitOn(payloads) ==
    /\ azure_result \in payloads
    /\ up \in BOOLEAN
    /\ pc = "validate"
    /\ relevant_tables = <<>>
    /\ st = ExtractStart
    /\ table_idx = 0
    /\ income_data = <<>>
    /\ grouped_data = <<>>
    /\ escaped = FALSE
    /\ result = NoResult
    /\ handlers = 1
    /\ parked = NoFrame
    /\ returned = <<>>
    /\ handler = NoHandler
    /\ InitBitrixIdle

\* documents of up to MaxTables table parts with up to MaxRows rows in all,
\* the rows taken from pool
InitDocuments(pool) ==
    \E rows \in SeqsUpTo(pool, MaxRows) :
        \E t \in 0..MaxTables :
            \E lens \in Lens(t, Len(rows)) :
                InitOn({Payload(<<>>, SplitRows(rows, lens))})

\* documents whose first row is the header row, followed by up to
\* MaxRows - 1 rows of pool, in up to MaxTables table parts
InitFragments(pool) ==
    \E rows \in SeqsUpTo(pool, MaxRows - 1) :
        \E t \in 1..MaxTables :
            \E lens \in Lens(t, Len(rows) + 1) :
                InitOn({Payload(<<>>, SplitRows(<<HeaderRow>> \o rows, lens))})

Init == InitOn(BasePayloads) \/ InitDocuments({HeaderRow, RowA, RowBad})

\* one table part: the header row, then up to MaxDataRows data rows
InitLedger ==
    \/ InitOn(BasePayloads)
    \/ \E rows \in SeqsUpTo({RowA, RowB, RowC, RowD, RowE}, MaxDataRows) :
           InitOn({Payload(<<>>, <<TableOf(<<HeaderRow>> \o rows)>>)})

\* documents whose rows also hold total rows and header words in data cells
InitDoc ==
    \/ InitOn(BasePayloads)
    \/ InitDocuments({HeaderRow, RowA, RowKw, RowBadKw, RowTotal, RowTotalCode})

\* parse leaves through its except clause
Leave(msg) ==
    /\ escaped' = OnException(msg).escaped
    /\ result' = OnException(msg).result
    /\ pc' = "done"

\* self.validate_result(azure_result)
Validate ==
    /\ pc = "validate"
    /\ IF ValidateResult(azure_result) # ""
       THEN Leave(ValidateResult(azure_result))
       ELSE pc' = "filter" /\ UNCHANGED <<escaped, result>>
    /\ UNCHANGED <<azure_result, up, relevant_tables, st, table_idx,
                   income_data, grouped_data>>
    /\ UNCHANGED outer

\* a parse that keeps the records the frame held before the call
FilterTablesKeepRecords ==
    /\ pc = "filter"
    /\ IF ContentIsNone(azure_result)
       THEN Leave(NoLenMessage) /\ UNCHANGED <<relevant_tables, st, table_idx>>
       ELSE /\ relevant_tables' =
                   FilterRelevantTables(azure_result.tables,
                                        Find(azure_result.content, "period"),
                                        Find(azure_result.content,
                                             "data formatuvannya"))
            /\ st' = [ExtractStart EXCEPT !.records = st.records]
            /\ table_idx' = 0
            /\ pc' = "tables"
            /\ UNCHANGED <<escaped, result>>
    /\ UNCHANGED <<azure_result, up, income_data, grouped_data>>
    /\ UNCHANGED outer

\* content, tables, the two markers and _filter_relevant_tables
FilterTables ==
    /\ pc = "filter"
    /\ IF ContentIsNone(azure_result)
       THEN Leave(NoLenMessage) /\ UNCHANGED <<relevant_tables, st, table_idx>>
       ELSE /\ relevant_tables' =
                   FilterRelevantTables(azure_result.tables,
                                        Find(azure_result.content, "period"),
                                        Find(azure_result.content,
                                             "data formatuvannya"))
            /\ st' = ExtractStart
            /\ table_idx' = 0
            /\ pc' = "tables"
            /\ UNCHANGED <<escaped, result>>
    /\ UNCHANGED <<azure_result, up, income_data, grouped_data>>
    /\ UNCHANGED outer

\* one table part of _extract_from_merged_tables
NextTablePart ==
    /\ pc = "tables"
    /\ table_idx < Len(relevant_tables)
    /\ LET s1 == TablePart(st, relevant_tables[table_idx + 1], table_idx)
       IN /\ st' = s1
          /\ IF s1.raised
             THEN Leave("list index out of range") /\ UNCHANGED table_idx
             ELSE /\ table_idx' = table_idx + 1
                  /\ UNCHANGED <<pc, escaped, result>>
    /\ UNCHANGED <<azure_result, up, relevant_tables, income_data, grouped_data>>
    /\ UNCHANGED outer

\* _extract_from_merged_tables returned records: they are the income data
UseTableRecords ==
    /\ pc = "tables"
    /\ table_idx = Len(relevant_tables)
    /\ st.records # <<>>
    /\ income_data' = IncomeData(st.records, azure_result.content)
    /\ pc' = "group"
    /\ UNCHANGED <<azure_result, up, relevant_tables, st, table_idx,
                   grouped_data, escaped, result>>
    /\ UNCHANGED outer

\* it returned no record: income_data = self._extract_from_text(content)
UseTextFallback ==
    /\ pc = "tables"
    /\ table_idx = Len(relevant_tables)
    /\ st.records = <<>>
    /\ income_data' = IncomeData(st.records, azure_result.content)
    /\ pc' = "group"
    /\ UNCHANGED <<azure_result, up, relevant_tables, st, table_idx,
                   grouped_data, escaped, result>>
    /\ UNCHANGED outer

\* a parse that raises when no record was extracted
GroupRejectEmpty ==
    /\ pc = "group"
    /\ IF income_data = <<>>
       THEN Leave("No income data found") /\ UNCHANGED grouped_data
       ELSE /\ grouped_data' = GroupAndSum(income_data, up)
            /\ pc' = "summary"
            /\ UNCHANGED <<escaped, result>>
    /\ UNCHANGED <<azure_result, up, relevant_tables, st, table_idx,
                   income_data>>
    /\ UNCHANGED outer

\* grouped_data = self._group_and_sum(income_data)
Group ==
    /\ pc = "group"
    /\ grouped_data' = GroupAndSum(income_data, up)
    /\ pc' = "summary"
    /\ UNCHANGED <<azure_result, up, relevant_tables, st, table_idx,
                   income_data, escaped, result>>
    /\ UNCHANGED outer

\* result = {...}; return result
Return ==
    /\ pc = "summary"
    /\ result' = Success(grouped_data, up)
    /\ pc' = "done"
    /\ UNCHANGED <<azure_result, up, relevant_tables, st, table_idx,
                   income_data, grouped_data, escaped>>
    /\ UNCHANGED outer

Next ==
    \/ Validate
    \/ FilterTables
    \/ NextTablePart
    \/ UseTableRecords
    \/ UseTextFallback
    \/ Group
    \/ Return

Spec == Init /\ [][Next]_vars

SpecLedger == InitLedger /\ [][Next]_vars

SpecDoc == InitDoc /\ [][Next]_vars

\* rows of two years and two codes in any order, in any table parts
InitOrder == InitOn(BasePayloads) \/ InitFragments({RowA, RowC, RowD})

SpecOrder == InitOrder /\ [][Next]_vars

\* a table whose cells carry the span offset, as in the service's raw result
Spanned(rows, offset) ==
    [TableOf(rows) EXCEPT
         !.cells = [k \in DOMAIN @ |-> [@[k] EXCEPT !.span = offset]]]

\* a table without spans that carries bounding regions
Bounded(rows) == [TableOf(rows) EXCEPT !.boundingRegions = TRUE]

\* contents without marker, with the period marker at position 0 or 1, and
\* with the date marker after it; a token counts as one position
Contents ==
    {<<>>,
     TextContent,
     <<"period">>,
     <<"x", "period", "\n">> \o TextContent,
     <<"x", "period", "y", "y", "data formatuvannya">>}

\* tables with and without span offsets
SpanTables ==
    {TableOf(<<HeaderRow, RowA>>),
     Bounded(<<HeaderRow, RowA>>),
     Spanned(<<HeaderRow, RowA>>, 1),
     Spanned(<<HeaderRow, RowB>>, 3),
     Spanned(<<RowA>>, 5)}

\* a content and up to MaxSpanTables tables
InitContent ==
    \E c \in Contents :
        \E tables \in SeqsUpTo(SpanTables, MaxSpanTables) :
            InitOn({Payload(c, tables)})

SpecContent == InitContent /\ [][Next]_vars

\* cells whose indices lie inside and outside a grid of up to MaxGridRows
\* rows and one column, negative indices included
GridCells ==
    [rowIndex : (0 - MaxGridRows - 1)..MaxGridRows,
     columnIndex : -2..1,
     content : {<<"x">>},
     span : {None}]

\* documents of one table with up to MaxGridCells such cells
InitGrid ==
    \/ InitOn(BasePayloads)
    \/ \E cells \in SeqsUpTo(GridCells, MaxGridCells) :
           \E row_count \in 0..MaxGridRows, col_count \in 0..1 :
               InitOn({Payload(<<>>, <<[rowCount |-> row_count,
                                        columnCount |-> col_count,
                                        cells |-> cells,
                                        boundingRegions |-> FALSE]>>)})

SpecGrid == InitGrid /\ [][Next]_vars

\* header rows that hold the year keyword alone and the two other keywords
HeaderYearOnly == << <<"Rik">>, <<"x">>, <<"x">> >>
HeaderRest == << <<"x">>, <<"narakhovanoho">>, <<"kod", "oznaky">> >>

\* documents whose header keywords are spread over rows and table parts
InitSpread ==
    \/ InitOn(BasePayloads)
    \/ InitDocuments({HeaderYearOnly, HeaderRest, RowA})

SpecSpread == InitSpread /\ [][Next]_vars

\* documents in which header rows come back, in the same or another layout
InitHeaders ==
    \/ InitOn(BasePayloads)
    \/ InitFragments({RowA, HeaderRow, HeaderRowSwapped, RowASwapped})

SpecHeaders == InitHeaders /\ [][Next]_vars

\* ------------------------------------------------- the parser's constructor
\* setup_logger(self.__class__.__name__): logger.handlers = []
ClearHandlers ==
    /\ pc = "construct"
    /\ handlers' = 0
    /\ pc' = "addHandler"
    /\ UNCHANGED <<azure_result, up, relevant_tables, st, table_idx,
                   income_data, grouped_data, escaped, result>>
    /\ UNCHANGED <<parked, returned, handler>>
    /\ UNCHANGED bitrix

\* setup_logger: logger.addHandler(handler); parse is called next
AddHandler ==
    /\ pc = "addHandler"
    /\ handlers' = handlers + 1
    /\ pc' = "validate"
    /\ UNCHANGED <<azure_result, up, relevant_tables, st, table_idx,
                   income_data, grouped_data, escaped, result>>
    /\ UNCHANGED <<parked, returned, handler>>
    /\ UNCHANGED bitrix

\* ---------------------------------------------------------------- webhook
NoResponse == [status |-> 0]

\* process_income_statement at its first statement
NewRequest ==
    [step |-> "request", html |-> <<>>, deal_field |-> <<>>,
     comments |-> <<>>, calls |-> <<>>, response |-> NoResponse]

\* format_for_bitrix(parsed_data): the text, by what it is built from
FormatForBitrix(parsed_data) ==
    IF ~parsed_data.success
    THEN [kind |-> "error", error |-> parsed_data.error]
    ELSE IF parsed_data.data = <<>> THEN [kind |-> "no data"]
    ELSE [kind |-> "report", data |-> parsed_data.data,
          summary |-> parsed_data.summary]

\* to_json(parsed_data): the JSON text, by the value it encodes
ToJson(parsed_data) == parsed_data

\* parsed_data.get("summary", {})
SummaryOf(parsed_data) ==
    IF "summary" \in DOMAIN parsed_data THEN parsed_data.summary ELSE <<>>

\* the analysis results analyze_document can hand to parse
WebhookPayloads ==
    {NullContent,
     Payload(<<>>, <<>>),
     Payload(TextContent, <<>>),
     Payload(<<>>, <<TableOf(<<HeaderRow, RowA>>)>>),
     Payload(<<>>, <<TableOf(<<HeaderRow, RowA>>), TableOf(<<RowA>>)>>)}

InitWebhook ==
    /\ azure_result \in WebhookPayloads
    /\ up \in BOOLEAN
    /\ pc = "idle"
    /\ relevant_tables = <<>>
    /\ st = ExtractStart
    /\ table_idx = 0
    /\ income_data = <<>>
    /\ grouped_data = <<>>
    /\ escaped = FALSE
    /\ result = NoResult
    /\ handlers = 1
    /\ parked = NoFrame
    /\ returned = <<>>
    /\ handler = NewRequest
    /\ InitBitrixIdle

\* the handler returns this response
Respond(response) ==
    handler' = [handler EXCEPT !.step = "responded", !.response = response]

\* jsonify({"success": False, "error": error}), status
ErrorResponse(status, error) ==
    [success |-> FALSE, status |-> status, error |-> error]

\* the handler called the step, which returned (ok) or raised
Called(h, call, ok) ==
    [h EXCEPT !.calls = Append(@, [call |-> call, ok |-> ok])]

\* deal_id from the URL or the JSON body, int(deal_id)
ReadRequest ==
    /\ handler.step = "request"
    /\ \E deal_id \in {"missing", "not a number", "number", "raises"} :
           CASE deal_id = "missing" ->
                    Respond(ErrorResponse(400, "Missing deal_id parameter"))
             [] deal_id = "not a number" ->
                    Respond(ErrorResponse(400, "deal_id must be a number"))
             [] deal_id = "number" ->
                    handler' = [handler EXCEPT !.step = "download"]
             [] deal_id = "raises" ->
                    handler' = [Called(handler, "request", FALSE) EXCEPT
                                    !.step = "failed"]
    /\ UNCHANGED <<frame, handlers, parked, returned>>
    /\ UNCHANGED bitrix

\* Step 1: bitrix_client.download_file_from_field, which may raise
Download ==
    /\ handler.step = "download"
    /\ \E ok \in BOOLEAN :
           handler' = [Called(handler, "download", ok) EXCEPT
                           !.step = IF ok THEN "analyze" ELSE "failed"]
    /\ UNCHANGED <<frame, handlers, parked, returned>>
    /\ UNCHANGED bitrix

\* Step 2: azure_client.analyze_document, which may raise; Step 3 begins
Analyze ==
    /\ handler.step = "analyze"
    /\ \E ok \in BOOLEAN :
           IF ok
           THEN /\ handler' = [Called(handler, "analyze", ok) EXCEPT
                                    !.step = "parse"]
                /\ pc' = "construct"
           ELSE /\ handler' = [Called(handler, "analyze", ok) EXCEPT
                                    !.step = "failed"]
                /\ UNCHANGED pc
    /\ UNCHANGED <<azure_result, up, relevant_tables, st, table_idx,
                   income_data, grouped_data, escaped, result>>
    /\ UNCHANGED <<handlers, parked, returned>>
    /\ UNCHANGED bitrix

\* a handler that goes on to the timeline comment when the update raised
SaveResultIgnoringFailure ==
    /\ handler.step = "parse"
    /\ pc = "done"
    /\ \E ok \in BOOLEAN :
           handler' =
               [Called(Called(handler, "parse", TRUE), "update", ok) EXCEPT
                    !.step = "comment",
                    !.html = FormatForBitrix(result),
                    !.deal_field = IF ok THEN Append(@, ToJson(result)) ELSE @]
    /\ UNCHANGED <<frame, handlers, parked, returned>>
    /\ UNCHANGED bitrix

\* Step 4 and the first half of Step 5: format_for_bitrix, to_json and
\* bitrix_client.update_deal_field, which may raise
SaveResult ==
    /\ handler.step = "parse"
    /\ pc = "done"
    /\ IF escaped
       THEN handler' = [Called(handler, "parse", FALSE) EXCEPT
                            !.step = "failed"]
       ELSE \E ok \in BOOLEAN :
                LET h == Called(Called(handler, "parse", TRUE), "update", ok)
                IN handler' =
                       IF ok
                       THEN [h EXCEPT
                                 !.step = "comment",
                                 !.html = FormatForBitrix(result),
                                 !.deal_field = Append(@, ToJson(result))]
                       ELSE [h EXCEPT !.step = "failed",
                                      !.html = FormatForBitrix(result)]
    /\ UNCHANGED <<frame, handlers, parked, returned>>
    /\ UNCHANGED bitrix

\* bitrix_client.add_timeline_comment(deal_id, html_output), which may raise
Comment ==
    /\ handler.step = "comment"
    /\ \E ok \in BOOLEAN :
           handler' =
               IF ok
               THEN [Called(handler, "comment", ok) EXCEPT
                         !.step = "respond",
                         !.comments = Append(@, handler.html)]
               ELSE [Called(handler, "comment", ok) EXCEPT !.step = "failed"]
    /\ UNCHANGED <<frame, handlers, parked, returned>>
    /\ UNCHANGED bitrix

\* return jsonify({"success": True, ...})
Answer ==
    /\ handler.step = "respond"
    /\ Respond([success |-> TRUE, status |-> 200,
                 message |-> "Document processed successfully",
                 summary |-> SummaryOf(result)])
    /\ UNCHANGED <<frame, handlers, parked, returned>>
    /\ UNCHANGED bitrix

\* except Exception: the error comment is tried, the answer is 500
HandleException ==
    /\ handler.step = "failed"
    /\ \E ok \in BOOLEAN :
           handler' =
               [Called(handler, "error comment", ok) EXCEPT
                    !.step = "responded",
                    !.comments = IF ok THEN Append(@, [kind |-> "exception"])
                                 ELSE @,
                    !.response = ErrorResponse(500, "str(e)")]
    /\ UNCHANGED <<frame, handlers, parked, returned>>
    /\ UNCHANGED bitrix

NextWebhook ==
    \/ ReadRequest
    \/ Download
    \/ Analyze
    \/ ClearHandlers
    \/ AddHandler
    \/ Validate
    \/ FilterTables
    \/ NextTablePart
    \/ UseTableRecords
    \/ UseTextFallback
    \/ Group
    \/ Return
    \/ SaveResult
    \/ Comment
    \/ Answer
    \/ HandleException

SpecWebhook == InitWebhook /\ [][NextWebhook]_vars

\* ------------------------------------------------- several calls of parse
\* the inputs of the calls
CallPayloads ==
    {NullContent,
     Payload(TextContent, <<>>),
     Payload(<<>>, <<TableOf(<<HeaderRow, RowA>>)>>),
     Payload(<<>>, <<TableOf(<<HeaderRow, RowA>>), TableOf(<<RowB>>)>>)}

\* the inputs of the later calls: a document and the rounding of its
\* half-cent sums
CallInputs ==
    {<<NullContent, FALSE>>,
     <<Payload(TextContent, <<>>), FALSE>>,
     <<Payload(<<>>, <<TableOf(<<HeaderRow, RowA>>)>>), FALSE>>,
     <<Payload(<<>>, <<TableOf(<<HeaderRow, RowA>>), TableOf(<<RowB>>)>>), TRUE>>}

\* the frame of the running call as a value
RunningFrame ==
    [azure_result |-> azure_result, up |-> up, pc |-> pc,
     relevant_tables |-> relevant_tables, st |-> st, table_idx |-> table_idx,
     income_data |-> income_data, grouped_data |-> grouped_data,
     escaped |-> escaped, result |-> result]

\* a call is in progress in the frame
InCall(f) == f.pc \notin {"none", "returned"}

\* the calls begun so far
CallsStarted ==
    Len(returned) + (IF InCall(RunningFrame) THEN 1 ELSE 0)
                  + (IF InCall(parked) THEN 1 ELSE 0)

InitCalls == InitOn(CallPayloads)

\* a request served by another thread creates its parser and calls parse
Spawn ==
    /\ parked = NoFrame
    /\ CallsStarted < MaxCalls
    /\ \E input \in CallInputs :
           parked' = [azure_result |-> input[1], up |-> input[2],
                      pc |-> "construct",
                      relevant_tables |-> <<>>, st |-> ExtractStart,
                      table_idx |-> 0, income_data |-> <<>>,
                      grouped_data |-> <<>>, escaped |-> FALSE,
                      result |-> NoResult]
    /\ UNCHANGED <<frame, handlers, returned, handler>>
    /\ UNCHANGED bitrix

\* the running thread is preempted: the other thread's call runs on
SwitchSharingRecords ==
    /\ parked # NoFrame
    /\ parked' = RunningFrame
    /\ azure_result' = parked.azure_result
    /\ up' = parked.up
    /\ pc' = parked.pc
    /\ relevant_tables' = parked.relevant_tables
    /\ st' = [parked.st EXCEPT !.records = st.records]
    /\ table_idx' = parked.table_idx
    /\ income_data' = parked.income_data
    /\ grouped_data' = parked.grouped_data
    /\ escaped' = parked.escaped
    /\ result' = parked.result
    /\ UNCHANGED <<handlers, returned, handler>>
    /\ UNCHANGED bitrix

\* the running thread is preempted: the other thread's call runs on, each
\* call with its own locals
Switch ==
    /\ parked # NoFrame
    /\ parked' = RunningFrame
    /\ azure_result' = parked.azure_result
    /\ up' = parked.up
    /\ pc' = parked.pc
    /\ relevant_tables' = parked.relevant_tables
    /\ st' = parked.st
    /\ table_idx' = parked.table_idx
    /\ income_data' = parked.income_data
    /\ grouped_data' = parked.grouped_data
    /\ escaped' = parked.escaped
    /\ result' = parked.result
    /\ UNCHANGED <<handlers, returned, handler>>
    /\ UNCHANGED bitrix

\* parsed_data = parser.parse(azure_result): the caller has the result
Finish ==
    /\ pc = "done"
    /\ handler = NoHandler
    /\ returned' = Append(returned, [azure_result |-> azure_result, up |-> up,
                                     escaped |-> escaped, result |-> result])
    /\ pc' = "returned"
    /\ UNCHANGED <<azure_result, up, relevant_tables, st, table_idx,
                   income_data, grouped_data, escaped, result>>
    /\ UNCHANGED <<handlers, parked, handler>>
    /\ UNCHANGED bitrix

\* the thread calls parse again, on the same parser or on a new one
CallAgain ==
    /\ pc = "returned"
    /\ CallsStarted < MaxCalls
    /\ \E input \in CallInputs :
           /\ azure_result' = input[1]
           /\ up' = input[2]
    /\ \E same_parser \in BOOLEAN :
           pc' = IF same_parser THEN "validate" ELSE "construct"
    /\ UNCHANGED <<relevant_tables, st, table_idx, income_data, grouped_data,
                   escaped, result>>
    /\ UNCHANGED outer

NextCalls ==
    \/ ClearHandlers
    \/ AddHandler
    \/ Validate
    \/ FilterTables
    \/ NextTablePart
    \/ UseTableRecords
    \/ UseTextFallback
    \/ Group
    \/ Return
    \/ Finish
    \/ CallAgain
    \/ Spawn
    \/ Switch

SpecCalls == InitCalls /\ [][NextCalls]_vars

\* ------------------------------------------------------------ BitrixClient
\* the operations of the client
OpKinds == {"update_deal_field", "add_timeline_comment", "get_deal_field",
            "download_file_from_field"}

\* the operations that go through get_access_token and retry after a 401
RetryKinds == OpKinds \ {"download_file_from_field"}

\* what the OAuth endpoint answers: an HTTP error, a body without
\* access_token, a body with access_token and a new refresh_token, a body
\* with access_token alone
OAuthOutcomes == {"http error", "no access_token", "rotated", "kept"}

\* what the REST API answers to a request of a retrying operation
ApiStatuses == {"200", "200 no result", "401", "500"}

\* the operation at its first statement; download_file_from_field begins
\* with its own token exchange
NewOp(kind) ==
    [kind |-> kind,
     pcop |-> IF kind = "download_file_from_field" THEN "exchange" ELSE "start",
     token |-> 0, data |-> NoData, log |-> <<>>]

\* the requests the operation has sent to the REST API so far
ApiEvents(log) == SelectSeq(log, LAMBDA ev : ev.e = "api")

\* the requests the operation has sent to the OAuth endpoint so far
OAuthEvents(log) == SelectSeq(log, LAMBDA ev : ev.e = "oauth")

InitBitrix ==
    /\ azure_result = Payload(<<>>, <<>>)
    /\ up = FALSE
    /\ pc = "idle"
    /\ relevant_tables = <<>>
    /\ st = ExtractStart
    /\ table_idx = 0
    /\ income_data = <<>>
    /\ grouped_data = <<>>
    /\ escaped = FALSE
    /\ result = NoResult
    /\ handlers = 1
    /\ parked = NoFrame
    /\ returned = <<>>
    /\ handler = NoHandler
    /\ InitBitrixIdle

\* a thread calls an operation of the module-level client
StartOp(t) ==
    /\ ops[t].pcop \in {"idle", "done", "error"}
    /\ \E kind \in OpKinds : ops' = [ops EXCEPT ![t] = NewOp(kind)]
    /\ UNCHANGED <<client, oauth>>
    /\ UNCHANGED <<frame, handlers, parked, returned, handler>>

\* token = self.get_access_token(): the stored token, or a refresh when
\* there is none
GetAccessToken(t) ==
    /\ ops[t].pcop = "start"
    /\ ops' = [ops EXCEPT ![t] =
                   IF client.access_token = 0
                   THEN [@ EXCEPT !.pcop = "refresh"]
                   ELSE [@ EXCEPT !.pcop = "send",
                                  !.token = client.access_token]]
    /\ UNCHANGED <<client, oauth>>
    /\ UNCHANGED <<frame, handlers, parked, returned, handler>>

\* requests.get(self.oauth_url, ...) with self.refresh_token, in
\* _refresh_access_token and in download_file_from_field, up to the test of
\* the response; download_file_from_field keeps the access token in a local
OAuthRequest(t) ==
    /\ ops[t].pcop \in {"refresh", "exchange"}
    /\ \E outcome \in OAuthOutcomes :
           LET ok == outcome \in {"rotated", "kept"}
               access == oauth.issued + 1
               event == [e |-> "oauth", sent |-> client.refresh_token,
                         latest |-> oauth.latest, ok |-> ok,
                         access |-> IF ok THEN access ELSE 0]
           IN /\ ok => oauth.issued < MaxTokens
              /\ oauth' = IF outcome = "rotated"
                          THEN [issued |-> access, latest |-> access]
                          ELSE IF outcome = "kept"
                          THEN [oauth EXCEPT !.issued = access]
                          ELSE oauth
              /\ ops' = [ops EXCEPT ![t] =
                     IF ~ok
                     THEN [@ EXCEPT !.pcop = "error", !.log = Append(@, event)]
                     ELSE IF ops[t].pcop = "refresh"
                     THEN [@ EXCEPT
                               !.pcop = "store",
                               !.log = Append(@, event),
                               !.data = [access |-> access,
                                         refresh |-> IF outcome = "rotated"
                                                     THEN access ELSE 0]]
                     ELSE [@ EXCEPT !.pcop = "deal get",
                                    !.log = Append(@, event),
                                    !.token = access]]
    /\ UNCHANGED client
    /\ UNCHANGED <<frame, handlers, parked, returned, handler>>

\* _refresh_access_token: self.access_token = data["access_token"], the
\* refresh token is stored if the response has one, the token is returned
StoreTokens(t) ==
    /\ ops[t].pcop = "store"
    /\ client' = [access_token |-> ops[t].data.access,
                  refresh_token |-> IF ops[t].data.refresh # 0
                                    THEN ops[t].data.refresh
                                    ELSE client.refresh_token]
    /\ ops' = [ops EXCEPT ![t] = [@ EXCEPT !.pcop = "send",
                                           !.token = ops[t].data.access]]
    /\ UNCHANGED oauth
    /\ UNCHANGED <<frame, handlers, parked, returned, handler>>

\* a request that is sent again after every 401
ApiRequestRetryAlways(t) ==
    /\ ops[t].pcop = "send"
    /\ \E status \in ApiStatuses :
           LET event == [e |-> "api", token |-> ops[t].token,
                         status |-> status]
           IN ops' = [ops EXCEPT ![t] =
                  [@ EXCEPT !.log = Append(@, event),
                            !.pcop = IF status = "401" THEN "refresh"
                                     ELSE IF status = "200" THEN "done"
                                     ELSE "error"]]
    /\ UNCHANGED <<client, oauth>>
    /\ UNCHANGED <<frame, handlers, parked, returned, handler>>

\* the request of update_deal_field, add_timeline_comment and
\* get_deal_field and what follows its response: the first 401 leads to
\* _refresh_access_token and the second request; raise_for_status and the
\* test of the result end the operation
ApiRequest(t) ==
    /\ ops[t].pcop = "send"
    /\ \E status \in ApiStatuses :
           LET first == ApiEvents(ops[t].log) = <<>>
               event == [e |-> "api", token |-> ops[t].token,
                         status |-> status]
           IN ops' = [ops EXCEPT ![t] =
                  [@ EXCEPT !.log = Append(@, event),
                            !.pcop = IF status = "401" /\ first THEN "refresh"
                                     ELSE IF status = "200" THEN "done"
                                     ELSE "error"]]
    /\ UNCHANGED <<client, oauth>>
    /\ UNCHANGED <<frame, handlers, parked, returned, handler>>

\* download_file_from_field: crm.deal.get and the file download, each with
\* the local access token; any failure raises
DownloadRequest(t) ==
    /\ ops[t].pcop \in {"deal get", "file get"}
    /\ \E ok \in BOOLEAN :
           LET event == [e |-> "api", token |-> ops[t].token,
                         status |-> IF ok THEN "200" ELSE "500"]
           IN ops' = [ops EXCEPT ![t] =
                  [@ EXCEPT !.log = Append(@, event),
                            !.pcop = IF ~ok THEN "error"
                                     ELSE IF ops[t].pcop = "deal get"
                                     THEN "file get" ELSE "done"]]
    /\ UNCHANGED <<client, oauth>>
    /\ UNCHANGED <<frame, handlers, parked, returned, handler>>

NextBitrix ==
    \E t \in Threads :
        \/ StartOp(t)
        \/ GetAccessToken(t)
        \/ OAuthRequest(t)
        \/ StoreTokens(t)
        \/ ApiRequest(t)
        \/ DownloadRequest(t)

SpecBitrix == InitBitrix /\ [][NextBitrix]_vars

\* ------------------------------------------------------------------ claims
Done == pc = "done"

RECURSIVE TotalsFrom(_, _)
\* the sum of the "_total" entries of data[k..]
TotalsFrom(data, k) ==
    IF k > Len(data) THEN 0 ELSE data[k].total + TotalsFrom(data, k + 1)

RECURSIVE AmountsOfYear(_, _, _)
\* the sum of the amounts of the records of a year, records[k..]
AmountsOfYear(records, year, k) ==
    IF k > Len(records) THEN 0
    ELSE (IF records[k].year = year THEN records[k].amount ELSE 0)
         + AmountsOfYear(records, year, k + 1)

\* every amount of the records has at most two decimal digits
TwoDecimals(records) == \A k \in 1..Len(records) : records[k].amount % 10 = 0

C2_TotalIsSumOfEmitted ==
    (Done /\ result.success) =>
        \A i \in 1..Len(result.data) :
            result.data[i].total = SumAmounts(result.data[i].codes, 1)

\* C2 (amended): for every year of a successful result, '_total' equals the
\* sum of all record amounts of that year, rounded once to 2 decimals; it
\* equals the sum of the emitted amounts when every record amount has at
\* most two decimal digits.
C2_TotalIsRoundedSum ==
    (Done /\ result.success) =>
        \A i \in 1..Len(result.data) :
            /\ result.data[i].total =
                   Round2(AmountsOfYear(income_data, result.data[i].year, 1), up)
            /\ TwoDecimals(income_data) =>
                   result.data[i].total = SumAmounts(result.data[i].codes, 1)

\* a year with two codes whose amounts have three decimals
C2_Witness ==
    /\ Done
    /\ result.success
    /\ \E i \in 1..Len(result.data) :
           /\ Len(result.data[i].codes) = 2
           /\ result.data[i].total # SumAmounts(result.data[i].codes, 1)
    /\ \E k \in 1..Len(income_data) : income_data[k].amount % 10 # 0

\* C3: in every successful result summary.total_amount is the sum of the
\* '_total' values of all years, summary.total_years is the number of year
\* keys and summary.years lists exactly those keys.
C3_SummaryMatchesData ==
    (Done /\ result.success) =>
        /\ result.summary.total_amount = TotalsFrom(result.data, 1)
        /\ result.summary.total_years = Len(result.data)
        /\ Len(result.summary.years) = Len(result.data)
        /\ \A i \in 1..Len(result.data) :
               result.summary.years[i] = result.data[i].year

\* two years, one of them with a total that is not the sum of its amounts
C3_Witness ==
    /\ Done
    /\ result.success
    /\ Len(result.data) = 2
    /\ result.summary.total_amount > 0
    /\ \E i \in 1..Len(result.data) :
           result.data[i].total # SumAmounts(result.data[i].codes, 1)

\* the grid of a table part of the input
RowsOf(table) ==
    BuildTableStructure(table.cells, table.rowCount, table.columnCount).table

\* a cell of the row holds one of the header keywords
HasHeaderWord(row) ==
    \E c \in 1..Len(row) :
        \/ InLower("rik", row[c])
        \/ InLower("narakhovanoho", row[c])
        \/ InLower("kod", row[c])
        \/ InLower("oznaky", row[c])

\* the row holds the three header keywords
IsHeaderRow(row) ==
    /\ \E c \in 1..Len(row) : InLower("rik", row[c])
    /\ \E c \in 1..Len(row) : InLower("narakhovanoho", row[c])
    /\ \E c \in 1..Len(row) : InLower("kod", row[c]) /\ InLower("oznaky", row[c])

\* the input is one fragment: the header row, then rows without header words
OneFragmentUnderHeader ==
    /\ azure_result.shape = "ok"
    /\ Len(azure_result.tables) = 1
    /\ LET rows == RowsOf(azure_result.tables[1])
       IN /\ Len(rows) >= 1
          /\ IsHeaderRow(rows[1])
          /\ \A r \in 2..Len(rows) : ~HasHeaderWord(rows[r])

\* the permutations of 1..n
RowOrders(n) ==
    {f \in [1..n -> 1..n] : \A i, j \in 1..n : f[i] = f[j] => i = j}

\* the input with the rows below the header of its fragment permuted by f
PermutedInput(f) ==
    LET rows == RowsOf(azure_result.tables[1])
    IN Payload(azure_result.content,
               <<TableOf(<<rows[1]>> \o [i \in 1..(Len(rows) - 1) |-> rows[f[i] + 1]])>>)

\* a ledger without its names
WithoutNames(data) ==
    [i \in 1..Len(data) |->
        [year |-> data[i].year,
         total |-> data[i].total,
         codes |-> [j \in 1..Len(data[i].codes) |->
                       [code |-> data[i].codes[j].code,
                        amount |-> data[i].codes[j].amount]]]]

\* the non-empty names the records give to a (year, code)
NamesOf(records, year, code) ==
    {records[k].code_name : k \in {n \in 1..Len(records) :
                                      /\ records[n].year = year
                                      /\ records[n].code = code
                                      /\ records[n].code_name # <<>>}}

RECURSIVE AmountsOfCode(_, _, _, _)
\* the sum of the amounts of the records of a (year, code), records[k..]
AmountsOfCode(records, year, code, k) ==
    IF k > Len(records) THEN 0
    ELSE (IF records[k].year = year /\ records[k].code = code
          THEN records[k].amount ELSE 0)
         + AmountsOfCode(records, year, code, k + 1)

\* a code sum or a year sum of the records falls on a half cent
HalfCent(records) ==
    \E k \in 1..Len(records) :
        \/ AmountsOfYear(records, records[k].year, 1) % 10 = 5
        \/ AmountsOfCode(records, records[k].year, records[k].code, 1) % 10 = 5

NoHeaderWords(table) ==
    \A r \in 1..Len(RowsOf(table)) : ~HasHeaderWord(RowsOf(table)[r])

\* the first row of the table part is a header row
StartsWithHeader(table) ==
    /\ Len(RowsOf(table)) >= 1
    /\ IsHeaderRow(RowsOf(table)[1])

FewTables == azure_result.shape = "ok" /\ Len(azure_result.tables) < 2

\* C8 (as claimed): a payload with a valid analysis section and fewer than
\* two tables makes parse return success = false.
C8_FewTablesFail == (Done /\ FewTables) => ~result.success

\* C8 (amended): a payload with a valid analysis section and fewer than two
\* tables is not rejected: parse returns success = true without an error;
\* with no table the records are those of the text fallback, and a single
\* table that starts with the header row and passes the relevance filter
\* yields the records of its rows below the header row.
C8_FewTablesSucceed ==
    (Done /\ FewTables) =>
        /\ result.success
        /\ "error" \notin DOMAIN result
        /\ Len(azure_result.tables) = 0 =>
               income_data = ExtractFromText(azure_result.content)
        /\ ( /\ Len(azure_result.tables) = 1
             /\ relevant_tables = azure_result.tables
             /\ StartsWithHeader(azure_result.tables[1]) ) =>
               LET table == azure_result.tables[1]
                   built == BuildTableStructure(table.cells, table.rowCount,
                                                table.columnCount)
               IN st.records = ExtractRows(built.table, 2, 0, 1, 2)

\* a document of one table parsed to a ledger with a year
C8_Witness ==
    /\ Done
    /\ FewTables
    /\ Len(azure_result.tables) = 1
    /\ StartsWithHeader(azure_result.tables[1])
    /\ st.records # <<>>
    /\ result.success
    /\ Len(result.data) >= 1

SecondTableHeaderless ==
    /\ azure_result.shape = "ok"
    /\ Len(azure_result.tables) >= 2
    /\ NoHeaderWords(azure_result.tables[2])

\* the first two tables have no header word and the third starts with a header
HeaderInThirdTable ==
    /\ SecondTableHeaderless
    /\ NoHeaderWords(azure_result.tables[1])
    /\ Len(azure_result.tables) >= 3
    /\ StartsWithHeader(azure_result.tables[3])

RECURSIVE AllRows(_, _)
\* the rows of tables[k..], in document order
AllRows(tables, k) ==
    IF k > Len(tables) THEN <<>>
    ELSE RowsOf(tables[k]) \o AllRows(tables, k + 1)

\* a document whose only header row is the first row of its first table
HeaderOnlyFirst ==
    /\ azure_result.shape = "ok"
    /\ Len(azure_result.tables) >= 1
    /\ StartsWithHeader(azure_result.tables[1])
    /\ LET rows == AllRows(azure_result.tables, 1)
       IN \A r \in 2..Len(rows) : ~IsHeaderRow(rows[r])

\* three non-empty fragments of one table, the header row only in the first
ThreeFragments ==
    /\ HeaderOnlyFirst
    /\ Len(azure_result.tables) = 3
    /\ \A k \in 1..3 : Len(RowsOf(azure_result.tables[k])) >= 1

\* the same rows delivered as a single table
Unsplit ==
    Payload(azure_result.content, <<TableOf(AllRows(azure_result.tables, 1))>>)

IsTotalRow(row) == \E c \in 1..Len(row) : InLower("total", row[c])

\* the "_total" of a year of the ledger in hundredths, 0 without the year
YearTotal(data, year) ==
    IF \E i \in 1..Len(data) : data[i].year = year
    THEN (CHOOSE e \in {data[i] : i \in 1..Len(data)} : e.year = year).total
    ELSE 0

Abs(x) == IF x < 0 THEN -x ELSE x

\* every printed total (year cell, amount cell of a Total row) is within
\* 0.01 of the ledger's total of that year; amounts in thousandths
TotalsAgree ==
    LET rows == AllRows(azure_result.tables, 1)
    IN \A r \in 1..Len(rows) :
           ( /\ IsTotalRow(rows[r])
             /\ YearOf(rows[r][1]) # None
             /\ AmountOf(rows[r][2]) # None ) =>
               Abs(YearTotal(result.data, YearOf(rows[r][1])) * 10
                   - AmountOf(rows[r][2])) <= 10

\* the document prints a total for some year
PrintsTotal ==
    /\ HeaderOnlyFirst
    /\ LET rows == AllRows(azure_result.tables, 1)
       IN \E r \in 1..Len(rows) :
              /\ IsTotalRow(rows[r])
              /\ YearOf(rows[r][1]) # None
              /\ AmountOf(rows[r][2]) # None

\* C6: the result of a document with printed Total rows carries
\* verification.total_match, true exactly when the summed per-year values
\* and the printed totals agree within 0.01.
C6_ReconciliationSound ==
    (Done /\ PrintsTotal /\ result.success) =>
        /\ "verification" \in DOMAIN result
        /\ result.verification.total_match = TotalsAgree

\* a data row whose amount cell holds text that is no number
IsBadAmountRow(row) ==
    /\ ~IsHeaderRow(row)
    /\ YearOf(row[1]) # None
    /\ ~Blank(row[2])
    /\ AmountOf(row[2]) = None

\* the rows kept when the bad rows, or the Total rows, are taken out
KeepNotBad(row) == ~IsBadAmountRow(row)

KeepNotTotal(row) == ~IsTotalRow(row)

\* the document without the rows with an unparsable amount
WithoutBadRows ==
    Payload(azure_result.content,
            [k \in 1..Len(azure_result.tables) |->
                TableOf(SelectSeq(RowsOf(azure_result.tables[k]), KeepNotBad))])

\* the document without its Total rows
WithoutTotalRows ==
    Payload(azure_result.content,
            [k \in 1..Len(azure_result.tables) |->
                TableOf(SelectSeq(RowsOf(azure_result.tables[k]), KeepNotTotal))])

\* exactly one row of the document has an unparsable amount
OneBadRow ==
    /\ HeaderOnlyFirst
    /\ LET rows == AllRows(azure_result.tables, 1)
       IN Cardinality({r \in 1..Len(rows) : IsBadAmountRow(rows[r])}) = 1

HasTotalRow ==
    /\ HeaderOnlyFirst
    /\ LET rows == AllRows(azure_result.tables, 1)
       IN /\ \E r \in 2..Len(rows) : IsTotalRow(rows[r])
          /\ \A r \in 2..Len(rows) : ~HasHeaderWord(rows[r])

C11_OutputShape ==
    Done =>
        /\ result.success => DOMAIN result = {"success", "data", "summary"}
        /\ ~result.success => "error" \in DOMAIN result
        /\ "error" \in DOMAIN result => ~result.success

\* a successful result of a document of two tables, with a year in its data
C11_Witness ==
    /\ Done
    /\ Len(azure_result.tables) = 2
    /\ result.success
    /\ DOMAIN result = {"success", "data", "summary"}
    /\ Len(result.data) = 1

\* C12: process_income_statement never answers success = true,
\* "Document processed successfully", for a document whose parse result has
\* success = false.
C12_FailedParseReported ==
    (handler.step = "responded" /\ pc = "done" /\ ~result.success) =>
        ~handler.response.success

\* C13: two parse calls on identical input return identical output, whatever
\* calls were made before or between them, on the same or another parser.
C13_Deterministic ==
    \A i, j \in 1..Len(returned) :
        ( /\ returned[i].azure_result = returned[j].azure_result
          /\ returned[i].up = returned[j].up ) =>
            returned[i].result = returned[j].result

\* the first and the third call had the same document, the second another
C13_Witness ==
    /\ Len(returned) = 3
    /\ returned[1].azure_result = returned[3].azure_result
    /\ returned[1].up = returned[3].up
    /\ returned[2].azure_result # returned[1].azure_result
    /\ returned[2].result.success
    /\ Len(returned[2].result.data) >= 1
    /\ returned[3].result.success
    /\ Len(returned[3].result.data) >= 1

\* C17: under any interleaving of parse calls, each call returns the result
\* it returns when it runs alone.
C17_CallsDoNotInterfere ==
    /\ \A i \in 1..Len(returned) :
           /\ ~returned[i].escaped
           /\ returned[i].result =
                  Parse(returned[i].azure_result, returned[i].up).result
    /\ Done => result = Parse(azure_result, up).result

\* a call returned its ledger while a call on another document is half done
C17_Witness ==
    /\ Done
    /\ result.success
    /\ Len(result.data) >= 1
    /\ InCall(parked)
    /\ parked.pc = "group"
    /\ parked.income_data # <<>>
    /\ parked.azure_result # azure_result

RECURSIVE FirstNameOf(_, _, _, _)
\* the code_name of the first record of records[k..] of the (year, code) that
\* has one, the empty name when none has
FirstNameOf(records, year, code, k) ==
    IF k > Len(records) THEN <<>>
    ELSE IF /\ records[k].year = year
            /\ records[k].code = code
            /\ records[k].code_name # <<>>
         THEN records[k].code_name
         ELSE FirstNameOf(records, year, code, k + 1)

\* C14: for each (year, code) the emitted name is the code_name of the first
\* record, in arrival order, that has a non-empty one (the empty name when
\* none has), and the emitted amount is the sum of the amounts of all records
\* of the (year, code), rounded to 2 decimals.
C14_FirstNameAndSum ==
    (Done /\ result.success) =>
        /\ \A i \in 1..Len(result.data) :
               \A j \in 1..Len(result.data[i].codes) :
                   LET year == result.data[i].year
                       e == result.data[i].codes[j]
                   IN /\ e.name = FirstNameOf(income_data, year, e.code, 1)
                      /\ e.amount =
                             Round2(AmountsOfCode(income_data, year, e.code, 1),
                                    up)
        /\ \A k \in 1..Len(income_data) :
               \E i \in 1..Len(result.data) :
                   /\ result.data[i].year = income_data[k].year
                   /\ \E j \in 1..Len(result.data[i].codes) :
                          result.data[i].codes[j].code = income_data[k].code

\* a (year, code) whose first record has no name, a later one a name and a
\* third one another name
C14_Witness ==
    /\ Done
    /\ result.success
    /\ Len(income_data) = 3
    /\ income_data[1].code_name = <<>>
    /\ income_data[2].code_name # <<>>
    /\ income_data[3].code_name # <<>>
    /\ income_data[3].code_name # income_data[2].code_name
    /\ \A k \in 1..3 : /\ income_data[k].year = income_data[1].year
                       /\ income_data[k].code = income_data[1].code
    /\ result.data[1].codes[1].name = income_data[2].code_name

\* C15: a payload of valid structure from which no record is extracted, by
\* the tables or by the text, yields success = true with empty data and the
\* summary total_years = 0, total_amount = 0, years empty.
C15_EmptyResultIsSuccess ==
    (Done /\ azure_result.shape = "ok" /\ income_data = <<>>) =>
        /\ result.success
        /\ "error" \notin DOMAIN result
        /\ result.data = <<>>
        /\ result.summary =
               [total_years |-> 0, total_amount |-> 0, years |-> <<>>]

\* a table under its header whose rows were all dropped
C15_Witness ==
    /\ Done
    /\ azure_result.shape = "ok"
    /\ Len(azure_result.tables) >= 1
    /\ StartsWithHeader(azure_result.tables[1])
    /\ Len(RowsOf(azure_result.tables[1])) >= 2
    /\ \A r \in 2..Len(RowsOf(azure_result.tables[1])) :
           RowsOf(azure_result.tables[1])[r] = RowBad
    /\ income_data = <<>>
    /\ result.success
    /\ result.data = <<>>

\* C16: in every successful result the years of the data are in ascending
\* order, within each year the codes are in ascending order, and
\* summary.years is in ascending order, whatever the order of the input rows
\* and table parts.
C16_SortedKeys ==
    (Done /\ result.success) =>
        /\ \A i, j \in 1..Len(result.data) :
               i < j => result.data[i].year < result.data[j].year
        /\ \A i \in 1..Len(result.data) :
               \A j, k \in 1..Len(result.data[i].codes) :
                   j < k => result.data[i].codes[j].code
                                < result.data[i].codes[k].code
        /\ \A i, j \in 1..Len(result.summary.years) :
               i < j => result.summary.years[i] < result.summary.years[j]

\* records of several table parts that arrived with the later year first and
\* the higher code first
C16_Witness ==
    /\ Done
    /\ result.success
    /\ Len(azure_result.tables) >= 2
    /\ Len(result.data) = 2
    /\ Len(result.summary.years) = 2
    /\ \E i \in 1..2 : Len(result.data[i].codes) = 2
    /\ \E k \in 1..(Len(income_data) - 1) :
           income_data[k].year > income_data[k + 1].year
    /\ \E k \in 1..(Len(income_data) - 1) :
           /\ income_data[k].year = income_data[k + 1].year
           /\ income_data[k].code > income_data[k + 1].code

\* the first table part has just been processed
FirstTableDone ==
    /\ pc = "tables"
    /\ table_idx = 1
    /\ Len(RowsOf(relevant_tables[1])) >= 1

\* one of the rows the header scan reads is a header row
HeaderInScannedRows(rows) ==
    \E r \in 1..Min(HeaderScanRows, Len(rows)) : IsHeaderRow(rows[r])

ColOf(row, kw) == (CHOOSE c \in 1..Len(row) : InLower(kw, row[c])) - 1

\* the records of a table part read by its own header row when it has one
\* (rows below it only), by the given columns when it has none
OwnRecords(rows, col_year, col_amount, col_code) ==
    IF \E r \in 1..Len(rows) : IsHeaderRow(rows[r])
    THEN LET a == CHOOSE r \in 1..Len(rows) :
                      /\ IsHeaderRow(rows[r])
                      /\ \A q \in 1..(r - 1) : ~IsHeaderRow(rows[q])
         IN ExtractRows(rows, a + 1, ColOf(rows[a], "rik"),
                        ColOf(rows[a], "narakhovanoho"), ColOf(rows[a], "kod"))
    ELSE ExtractRows(rows, 1, col_year, col_amount, col_code)

\* two table parts, the first one the header row and data rows under it
TwoPartsUnderHeader ==
    /\ azure_result.shape = "ok"
    /\ relevant_tables = azure_result.tables
    /\ Len(azure_result.tables) = 2
    /\ LET rows == RowsOf(azure_result.tables[1])
       IN /\ Len(rows) >= 2
          /\ rows[1] = HeaderRow
          /\ \A r \in 2..Len(rows) : ~HasHeaderWord(rows[r])
          /\ ExtractRows(rows, 2, 0, 1, 2) # <<>>
    /\ Len(RowsOf(azure_result.tables[2])) >= 1

RelevantUnder(content) ==
    FilterRelevantTables(azure_result.tables, Find(content, "period"),
                         Find(content, "data formatuvannya"))

\* the tables gave at least one record
TablesGaveRecords ==
    /\ Done
    /\ azure_result.shape = "ok"
    /\ st.records # <<>>

Addressed(table, r, c) ==
    \E k \in 1..Len(table.cells) :
        /\ table.cells[k].rowIndex = r
        /\ table.cells[k].columnIndex = c

\* building the grid of the table does not fail and every position that no
\* in-range cell addresses is empty
OutOfRangeIgnored(table) ==
    LET built == BuildTableStructure(table.cells, table.rowCount,
                                     table.columnCount)
    IN /\ ~built.raised
       /\ \A r \in 0..(table.rowCount - 1), c \in 0..(table.columnCount - 1) :
              ~Addressed(table, r, c) => built.table[r + 1][c + 1] = <<>>

\* C21 (as claimed): building the grid of a table never fails, and a cell
\* whose row or column index is out of range, negative indices included,
\* changes no position: every position not addressed by an in-range cell is
\* empty.
C21_OutOfRangeIgnored ==
    (Done /\ azure_result.shape = "ok" /\ Len(relevant_tables) >= 1
     /\ relevant_tables[1].cells # <<>>)
        => OutOfRangeIgnored(relevant_tables[1])

\* parse is past the choice of its income data and has not failed
StrategyChosen == pc \in {"group", "summary"} \/ (Done /\ result.success)

\* C22: the strategies run in a fixed order: the table extraction over all
\* relevant tables comes first; the text is read if and only if it returned
\* no record, and when it returned a record the ledger is built from the
\* table records alone.
C22_StrategyOrder ==
    StrategyChosen =>
        /\ table_idx = Len(relevant_tables)
        /\ st = ExtractFromMergedTables(relevant_tables)
        /\ (st.records = <<>>) =>
               income_data = ExtractFromText(azure_result.content)
        /\ (st.records # <<>>) => income_data = st.records
        /\ Done => result.data = GroupAndSum(income_data, up)

\* the tables gave records and the text holds an income line that would give
\* another ledger
C22_Witness ==
    /\ Done
    /\ result.success
    /\ st.records # <<>>
    /\ ExtractFromText(azure_result.content) # <<>>
    /\ GroupAndSum(ExtractFromText(azure_result.content), up) # result.data
    /\ result.data = GroupAndSum(st.records, up)

\* a table that has cells, none of which carries a span offset
SpanlessTable(table) ==
    /\ table.cells # <<>>
    /\ \A i \in 1..Len(table.cells) : table.cells[i].span = None

\* C23 (as claimed): once the period marker was found in the content, every
\* non-empty table without span offsets is kept by the filter, in the
\* original order, the tables without bounding regions included.
C23_SpanlessTablesKept ==
    ( /\ pc \in {"tables", "group", "summary"} \/ (Done /\ result.success)
      /\ Find(azure_result.content, "period") # -1 )
        => SelectSeq(relevant_tables, SpanlessTable)
               = SelectSeq(azure_result.tables, SpanlessTable)

\* the header test of the kind on one cell
HeaderTest(kind, cell) ==
    CASE kind = "year" -> InLower("rik", cell)
      [] kind = "amount" -> InLower("narakhovanoho", cell)
      [] kind = "code" -> InLower("kod", cell) /\ InLower("oznaky", cell)

\* the keyword of the kind occurs within the first five rows of some fragment
KeywordSeen(kind) ==
    \E k \in 1..Len(relevant_tables) :
        LET rows == RowsOf(relevant_tables[k])
        IN \E r \in 1..Min(HeaderScanRows, Len(rows)) :
               \E c \in 1..Len(rows[r]) : HeaderTest(kind, rows[r][c])

\* the last of two or more fragments holds a complete data row
DataRowInLastFragment ==
    /\ Len(relevant_tables) >= 2
    /\ LET rows == RowsOf(relevant_tables[Len(relevant_tables)])
       IN \E r \in 1..Len(rows) : rows[r] = RowA

AfterFirst401(op, i) ==
    LET log == op.log
    IN /\ i = Len(log) => op.pcop = "refresh"
       /\ i < Len(log) =>
              /\ log[i + 1].e = "oauth"
              /\ ~log[i + 1].ok => (i + 1 = Len(log) /\ op.pcop = "error")
              /\ log[i + 1].ok =>
                     \/ i + 1 = Len(log) /\ op.pcop \in {"store", "send"}
                     \/ /\ i + 2 = Len(log)
                        /\ log[i + 2].e = "api"
                        /\ log[i + 2].token = log[i + 1].access
                        /\ op.pcop \in {"done", "error"}

\* the bound on the requests of one operation
RetryBound(op) ==
    LET log == op.log
    IN /\ Len(ApiEvents(log)) <= 2
       /\ Len(OAuthEvents(log)) <= 2
       /\ \A i \in 1..Len(log) :
              log[i].e = "api" =>
                  IF log[i].status # "401"
                  THEN /\ i = Len(log)
                       /\ op.pcop = IF log[i].status = "200" THEN "done"
                                    ELSE "error"
                  ELSE IF ApiEvents(SubSeq(log, 1, i - 1)) = <<>>
                  THEN AfterFirst401(op, i)
                  ELSE i = Len(log) /\ op.pcop = "error"

\* C25: in update_deal_field, add_timeline_comment and get_deal_field the
\* first 401 is followed by one token refresh and, with the new token, one
\* more request; an operation sends at most two API requests and at most two
\* OAuth refreshes, and a second 401 ends it in an error.
C25_RetryBound ==
    \A t \in Threads : ops[t].kind \in RetryKinds => RetryBound(ops[t])

\* an operation that refreshed at its start and after its first 401 and got
\* 401 again
C25_Witness ==
    \E t \in Threads :
        /\ ops[t].kind \in RetryKinds
        /\ ops[t].pcop = "error"
        /\ Len(ops[t].log) = 4
        /\ ops[t].log[1].e = "oauth"
        /\ ops[t].log[2].e = "api" /\ ops[t].log[2].status = "401"
        /\ ops[t].log[3].e = "oauth" /\ ops[t].log[3].ok
        /\ ops[t].log[4].e = "api" /\ ops[t].log[4].status = "401"
        /\ ops[t].log[4].token = ops[t].log[3].access
        /\ ops[t].log[4].token # ops[t].log[2].token

\* C26 (as claimed): the refresh token the client sends to the OAuth
\* endpoint is always the one the endpoint returned last.
C26_LatestRefreshTokenSent ==
    \A t \in Threads :
        \A i \in 1..Len(ops[t].log) :
            ops[t].log[i].e = "oauth" => ops[t].log[i].sent = ops[t].log[i].latest

\* the steps of process_income_statement in the order of the source
Steps == <<"download", "analyze", "parse", "update", "comment">>

\* the steps the handler called before the error comment
StepCalls == SelectSeq(handler.calls, LAMBDA c : c.call # "error comment")

\* the error comments the handler tried to post
ErrorComments == SelectSeq(handler.calls, LAMBDA c : c.call = "error comment")

\* C27: the steps run in the order download, analysis, parsing, field
\* update, timeline comment, each only after every earlier one returned; a
\* step that raises is the last one, exactly one error comment is tried
\* after it, and the answer is HTTP 500 with success false whether or not
\* that comment could be posted.
C27_StepOrder ==
    /\ handler.step # "none" =>
           /\ \A i \in 1..Len(StepCalls) :
                  /\ StepCalls[i].call \in {Steps[i], "request"}
                  /\ StepCalls[i].call = "request" => i = 1 /\ ~StepCalls[i].ok
                  /\ \A j \in 1..(i - 1) : StepCalls[j].ok
           /\ (\E i \in 1..Len(StepCalls) : StepCalls[i].call = "update")
                  => pc = "done"
           /\ Len(handler.deal_field) =
                  Len(SelectSeq(StepCalls,
                                LAMBDA c : c.call = "update" /\ c.ok))
           /\ Len(ErrorComments) <= 1
           /\ ErrorComments # <<>> =>
                  /\ handler.calls[Len(handler.calls)].call = "error comment"
                  /\ ~StepCalls[Len(StepCalls)].ok
    /\ (handler.step = "responded"
        /\ \E i \in 1..Len(StepCalls) : ~StepCalls[i].ok) =>
           /\ Len(ErrorComments) = 1
           /\ handler.response.status = 500
           /\ ~handler.response.success

\* the update of the deal field raised after three steps that returned, and
\* the error comment could not be posted either
C27_Witness ==
    /\ handler.step = "responded"
    /\ Len(handler.calls) = 5
    /\ \A i \in 1..3 : handler.calls[i].ok
    /\ handler.calls[4] = [call |-> "update", ok |-> FALSE]
    /\ handler.calls[5] = [call |-> "error comment", ok |-> FALSE]
    /\ handler.comments = <<>>
    /\ handler.response.status = 500
    /\ ~handler.response.success

====
